---- MODULE Spec2Model ----
(***************************************************************************)
(* Model of the whiteboard room bridge (RoomBridge / Room.ts).             *)
(*                                                                         *)
(* Two specifications share this module:                                   *)
(*   SlideSpec  the pure function makeSlideParams: Init draws a scene      *)
(*              list and the actions apply the function to it;             *)
(*   Spec       the bridge itself: the host dispatches bridge calls, the   *)
(*              handlers call the collaborators (room, window manager,     *)
(*              synced store) and the collaborators' promises settle.      *)
(*                                                                         *)
(* A JavaScript string that the code inspects character by character (a    *)
(* slide source, a task id, a url) is a sequence of one-character strings. *)
(***************************************************************************)
EXTENDS Integers, Sequences, FiniteSets, TLC

VARIABLES
    scenes,      \* SlideSpec: the argument handed to makeSlideParams
    result,      \* SlideSpec: what makeSlideParams (RoomBridge) returned
    roomResult,  \* SlideSpec: what makeSlideParams (Room.ts) returned
    manager,     \* window.manager is set (multi-window mode)
    syncedStore, \* window.syncedStore is set
    room,        \* the room collaborator's observable state
    inv,         \* the bridge calls dispatched so far, in dispatch order
    calls        \* the uses of the collaborators and the notifications sent
                 \* to the host so far, in issue order

vars == <<scenes, result, roomResult, manager, syncedStore, room, inv, calls>>

slideVars == <<scenes, result, roomResult>>

bridgeVars == <<manager, syncedStore, room, inv, calls>>

(***************************************************************************)
(* Bounds.                                                                 *)
(***************************************************************************)
\* longest scene list handed to makeSlideParams in SlideSpec
MaxScenes == 3

\* number of bridge calls the host dispatches in one behaviour of Spec
MaxInv == 2

(***************************************************************************)
(* Strings as character sequences.                                         *)
(***************************************************************************)
Min(S) == CHOOSE x \in S : \A y \in S : x <= y

Max(S) == CHOOSE x \in S : \A y \in S : x >= y

\* String.prototype.startsWith
startsWith(s, prefix) ==
    /\ Len(s) >= Len(prefix)
    /\ SubSeq(s, 1, Len(prefix)) = prefix

\* the literal s occurs in str at position i (1-based)
LitAt(str, i, s) ==
    /\ i >= 1
    /\ i + Len(s) - 1 <= Len(str)
    /\ SubSeq(str, i, i + Len(s) - 1) = s

\* \s of the regular expression
WhiteSpace == {" ", "\t", "\n", "\r"}

\* \w of the regular expression: [A-Za-z0-9_]
WordChars ==
    {"a","b","c","d","e","f","g","h","i","j","k","l","m",
     "n","o","p","q","r","s","t","u","v","w","x","y","z",
     "A","B","C","D","E","F","G","H","I","J","K","L","M",
     "N","O","P","Q","R","S","T","U","V","W","X","Y","Z",
     "0","1","2","3","4","5","6","7","8","9","_"}

\* \S of the regular expression
IsNonSpace(c) == c \notin WhiteSpace

IsWord(c) == c \in WordChars

ppt == <<"p","p","t">>

https == <<"h","t","t","p","s">>

dynamicConvert == <<"d","y","n","a","m","i","c","C","o","n","v","e","r","t">>

NoMatch == [matched |-> FALSE]

(***************************************************************************)
(* pptSrcRE = /^pptx?(?<prefix>:\/\/\S+?dynamicConvert)\/(?<taskId>\w+)\// *)
(* run by exec, as the backtracking matcher runs it.                       *)
(***************************************************************************)
\* (?<taskId>\w+)\/ at position j: the greedy run of word characters, given
\* back one character at a time until a "/" follows; 0 when none does.
TaskLenAt(str, j) ==
    LET runs == {m \in 1..(Len(str) - j + 1) :
                    /\ \A q \in j..(j + m - 1) : IsWord(str[q])
                    /\ LitAt(str, j + m, <<"/">>)}
    IN  IF runs = {} THEN 0 ELSE Max(runs)

\* \S+?dynamicConvert\/(\w+)\/ at position i: the lazy run takes one
\* character and grows by one each time the rest of the pattern fails.
PrefixLens(str, i) ==
    {k \in 1..(Len(str) - i + 1) :
        /\ \A q \in i..(i + k - 1) : IsNonSpace(str[q])
        /\ LitAt(str, i + k, dynamicConvert)
        /\ LitAt(str, i + k + Len(dynamicConvert), <<"/">>)
        /\ TaskLenAt(str, i + k + Len(dynamicConvert) + 1) > 0}

\* faulty variant: \S+ written greedy instead of lazy
GroupsAt_greedy(str, i) ==
    IF ~LitAt(str, i, <<":","/","/">>) \/ PrefixLens(str, i + 3) = {}
    THEN NoMatch
    ELSE LET k == Max(PrefixLens(str, i + 3))
             e == i + 3 + k + Len(dynamicConvert) - 1
             t == e + 2
         IN  [matched |-> TRUE,
              prefix  |-> SubSeq(str, i, e),
              taskId  |-> SubSeq(str, t, t + TaskLenAt(str, t) - 1)]

\* the pattern from the named group prefix on, tried at position i
GroupsAt(str, i) ==
    IF ~LitAt(str, i, <<":","/","/">>) \/ PrefixLens(str, i + 3) = {}
    THEN NoMatch
    ELSE LET k == Min(PrefixLens(str, i + 3))
             e == i + 3 + k + Len(dynamicConvert) - 1
             t == e + 2
         IN  [matched |-> TRUE,
              prefix  |-> SubSeq(str, i, e),
              taskId  |-> SubSeq(str, t, t + TaskLenAt(str, t) - 1)]

pptSrcRE_exec(str) ==
    IF ~LitAt(str, 1, ppt)
    THEN NoMatch
    ELSE IF LitAt(str, 4, <<"x">>) /\ GroupsAt(str, 5).matched
         THEN GroupsAt(str, 5)     \* x? is greedy: the x is taken first
         ELSE GroupsAt(str, 4)     \* and given back when the rest fails

(***************************************************************************)
(* Scenes.  A SceneDefinition is [name, ppt]; ppt is NoPpt when the scene  *)
(* carries no slide descriptor, else [src |-> <characters>].               *)
(***************************************************************************)
NoPpt == [present |-> FALSE]

Ppt(s) == [present |-> TRUE, src |-> s]

Scene(n, p) == [name |-> n, ppt |-> p]

\* the JavaScript empty string
Empty == <<>>

(***************************************************************************)
(* makeSlideParams of Room.ts: the stripped list is built inside the loop. *)
(***************************************************************************)
RECURSIVE RoomSlideLoop(_, _, _)
RoomSlideLoop(ss, i, acc) ==
    IF i > Len(ss)
    THEN [scenesWithoutPPT |-> acc, taskId |-> Empty, url |-> Empty]
    ELSE LET pushed == Append(acc, [name |-> ss[i].name])
         IN  IF ~ss[i].ppt.present \/ ~startsWith(ss[i].ppt.src, ppt)
             THEN RoomSlideLoop(ss, i + 1, pushed)
             ELSE LET match == pptSrcRE_exec(ss[i].ppt.src)
                  IN  IF ~match.matched
                      THEN RoomSlideLoop(ss, i + 1, pushed)
                      ELSE [scenesWithoutPPT |-> pushed,
                            taskId           |-> match.taskId,
                            url              |-> https \o match.prefix]

Room_makeSlideParams(ss) == RoomSlideLoop(ss, 1, <<>>)

(***************************************************************************)
(* makeSlideParams of RoomBridge (src/unnamed/part_000).                   *)
(***************************************************************************)
\* scenes.map(v => { return {name: v.name} })
StripScenes(ss) == [i \in 1..Len(ss) |-> [name |-> ss[i].name]]

\* faulty variant: the loop without its break, so that the last match wins
RECURSIVE SlideLoop_noBreak(_, _, _, _)
SlideLoop_noBreak(ss, i, taskId, url) ==
    IF i > Len(ss)
    THEN [taskId |-> taskId, url |-> url]
    ELSE IF ~ss[i].ppt.present \/ ~startsWith(ss[i].ppt.src, ppt)
         THEN SlideLoop_noBreak(ss, i + 1, taskId, url)
         ELSE LET match == pptSrcRE_exec(ss[i].ppt.src)
              IN  IF ~match.matched
                  THEN SlideLoop_noBreak(ss, i + 1, taskId, url)
                  ELSE SlideLoop_noBreak(ss, i + 1, match.taskId, https \o match.prefix)

\* the for loop from scene i on; taskId and url are the loop's two locals
RECURSIVE SlideLoop(_, _, _, _)
SlideLoop(ss, i, taskId, url) ==
    IF i > Len(ss)
    THEN [taskId |-> taskId, url |-> url]
    ELSE IF ~ss[i].ppt.present \/ ~startsWith(ss[i].ppt.src, ppt)
         THEN SlideLoop(ss, i + 1, taskId, url)                  \* continue
         ELSE LET match == pptSrcRE_exec(ss[i].ppt.src)
              IN  IF ~match.matched
                  THEN SlideLoop(ss, i + 1, taskId, url)         \* continue
                  ELSE [taskId |-> match.taskId,
                        url    |-> https \o match.prefix]        \* break

\* faulty variant: the stripped list is pushed inside the loop, as Room.ts does
makeSlideParams_pushInLoop(ss) == Room_makeSlideParams(ss)

\* faulty variant: taskId and url declared without their "" initialisers
makeSlideParams_noDefaults(ss) ==
    LET r == SlideLoop(ss, 1, <<"undefined">>, <<"undefined">>)
    IN  [scenesWithoutPPT |-> StripScenes(ss),
         taskId           |-> r.taskId,
         url              |-> r.url]

\* faulty variant: the assignment of url on a match is left out
makeSlideParams_urlNotSet(ss) ==
    LET r == SlideLoop(ss, 1, Empty, Empty)
    IN  [scenesWithoutPPT |-> StripScenes(ss),
         taskId           |-> r.taskId,
         url              |-> Empty]

makeSlideParams(ss) ==
    LET r == SlideLoop(ss, 1, Empty, Empty)
    IN  [scenesWithoutPPT |-> StripScenes(ss),
         taskId           |-> r.taskId,
         url              |-> r.url]

(***************************************************************************)
(* Inputs of SlideSpec.                                                    *)
(***************************************************************************)
SeqsUpTo(S, n) == UNION {[1..k -> S] : k \in 0..n}

sep == <<":","/","/">>

slash == <<"/">>

\* ppt://h/dynamicConvert/t1/1
SrcA == ppt \o sep \o <<"h","/">> \o dynamicConvert \o <<"/","t","1","/","1">>

\* pptx://g/dynamicConvert/t2/
SrcB == ppt \o <<"x">> \o sep \o <<"g","/">> \o dynamicConvert \o <<"/","t","2","/">>

\* ppt://h/dynamicConvert/t1   (no "/" closes the task id)
SrcBad == ppt \o sep \o <<"h","/">> \o dynamicConvert \o <<"/","t","1">>

\* http://h/dynamicConvert/t1/1   (not a ppt source)
SrcHttp == <<"h","t","t","p">> \o sep \o <<"h","/">> \o dynamicConvert \o <<"/","t","1","/","1">>

\* ppt://cdn.example.com/dynamicConvert/abc123/1.slide
SrcExample ==
    ppt \o sep \o <<"c","d","n",".","e","x","a","m","p","l","e",".","c","o","m","/">>
        \o dynamicConvert \o <<"/","a","b","c","1","2","3","/","1",".","s","l","i","d","e">>

\* pptx://host/path/dynamicConvert/task42/2.slide
SrcExampleX ==
    ppt \o <<"x">> \o sep \o <<"h","o","s","t","/","p","a","t","h","/">>
        \o dynamicConvert \o <<"/","t","a","s","k","4","2","/","2",".","s","l","i","d","e">>

ListSrcs == {SrcA, SrcB, SrcBad, SrcHttp}

SceneNames == {"a", "b"}

ScenePool == {Scene(n, p) : n \in SceneNames, p \in {NoPpt} \cup {Ppt(s) : s \in ListSrcs}}

\* the parts a slide source is put together from
Schemes == {ppt, ppt \o <<"x">>, <<"p","p">>, <<"P","P","T">>, ppt \o <<"s">>}

Seps == {sep, <<":","/">>}

Paths == {Empty,
          <<"h","/">>,
          <<"c",".","e","-","m",":","8","/","p","/">>,
          <<"h"," ","/">>,
          <<"h","/">> \o dynamicConvert \o <<"/","t","0","/">>,
          dynamicConvert \o <<"/","t","0","/">>,
          <<"h","/">> \o dynamicConvert \o <<"/","-","/">>}

Markers == {dynamicConvert, <<"d","y","n","a","m","i","c","c","o","n","v","e","r","t">>}

TaskIds == {<<"t","1">>, <<"A","_","9">>, dynamicConvert, Empty, <<"a","-","b">>, <<"a"," ">>}

Tails == {<<"/">>, <<"/","1",".","s","l","i","d","e">>, Empty, <<".","s">>}

BuiltSrcs ==
    {sc \o sp \o pa \o mk \o slash \o tk \o tl :
        sc \in Schemes, sp \in Seps, pa \in Paths,
        mk \in Markers, tk \in TaskIds, tl \in Tails}

SlideInputs ==
    SeqsUpTo(ScenePool, MaxScenes)
        \cup {<<Scene("a", Ppt(s))>> : s \in BuiltSrcs \cup {SrcExample, SrcExampleX, Empty}}

NotCalled == [called |-> FALSE]

Returned(r) == [called |-> TRUE, value |-> r]

(***************************************************************************)
(* JavaScript values that cross the bridge.                                *)
(***************************************************************************)
Undefined == [t |-> "undefined"]

Num(n) == [t |-> "number", n |-> n]

Bool(b) == [t |-> "boolean", b |-> b]

Str(s) == [t |-> "string", s |-> s]

\* an object: its own enumerable properties, in insertion order
Obj(fields) == [t |-> "object", fields |-> fields]

Arr(items) == [t |-> "array", items |-> items]

\* an Error thrown or rejected by a collaborator
Err(msg) == [t |-> "error", message |-> msg, stack |-> "Error: " \o msg \o " at sdk.js"]

RECURSIVE JoinText(_, _)
JoinText(texts, i) ==
    IF i > Len(texts) THEN ""
    ELSE IF i = Len(texts) THEN texts[i]
    ELSE texts[i] \o "," \o JoinText(texts, i + 1)

\* the text JSON.stringify produces for v (v not undefined)
RECURSIVE JSONText(_)
JSONText(v) ==
    CASE v.t = "number"  -> ToString(v.n)
      [] v.t = "boolean" -> IF v.b THEN "true" ELSE "false"
      [] v.t = "string"  -> "\"" \o v.s \o "\""
      [] v.t = "array"   ->
            "[" \o JoinText([i \in 1..Len(v.items) |->
                                IF v.items[i].t = "undefined" THEN "null"
                                ELSE JSONText(v.items[i])], 1) \o "]"
      [] v.t = "object"  ->
            LET own == SelectSeq(v.fields, LAMBDA f : f[2].t # "undefined")
            IN  "{" \o JoinText([i \in 1..Len(own) |->
                                "\"" \o own[i][1] \o "\":" \o JSONText(own[i][2])], 1) \o "}"

\* JSON.stringify(v): a string, or undefined for undefined
JSON_stringify(v) == IF v.t = "undefined" THEN Undefined ELSE Str(JSONText(v))

\* { __error: { message: e.message, jsStack: e.stack } }
ErrorObj(e) ==
    Obj(<< <<"__error", Obj(<< <<"message", Str(e.message)>>,
                               <<"jsStack", Str(e.stack)>> >>)>> >>)

\* JSON.stringify({ __error: { message: e.message, jsStack: e.stack } })
ErrorPayload(e) == JSON_stringify(ErrorObj(e))

(***************************************************************************)
(* The collaborators.  The room's state is what the bridge reads from it;  *)
(* the window manager's values differ from the room's so that the backend  *)
(* that answered can be told from the answer.                              *)
(***************************************************************************)
RoomScene(n, src) == Obj(<< <<"name", Str(n)>>, <<"ppt", Obj(<< <<"src", Str(src)>> >>)>> >>)

PlainScene(n) == Obj(<< <<"name", Str(n)>> >>)

RoomInit ==
    [scenes               |-> <<RoomScene("a", "ppt://h/dynamicConvert/t1/1.slide"), PlainScene("b")>>,
     index                |-> 0,
     contextPath          |-> "/",
     isWritable           |-> TRUE,
     observerId           |-> 7,
     phase                |-> "connected",
     canUndoSteps         |-> 1,
     canRedoSteps         |-> 0,
     scale                |-> 1,
     memberState          |-> Obj(<< <<"currentApplianceName", Str("pencil")>> >>),
     globalState          |-> Obj(<<>>),
     roomMembers          |-> Arr(<<Obj(<< <<"memberId", Num(7)>> >>)>>),
     broadcastState       |-> Obj(<< <<"mode", Str("freedom")>> >>),
     timeDelay            |-> 0,
     disableSerialization |-> TRUE]

\* window.manager's own values
ManagerState == [canUndoSteps |-> 3, canRedoSteps |-> 2, scale |-> 2]

\* window.syncedStore.attributes
SyncedAttributes == Obj(<< <<"k", Num(5)>> >>)

\* room.state.sceneState
sceneState(rm) ==
    Obj(<< <<"scenes", Arr(rm.scenes)>>,
           <<"index", Num(rm.index)>>,
           <<"contextPath", Str(rm.contextPath)>> >>)

(***************************************************************************)
(* Bookkeeping of Spec: one record per dispatched bridge call, one record  *)
(* per use of a collaborator.                                              *)
(***************************************************************************)
\* the number the call being dispatched gets
Me == Len(inv) + 1

NewInv(method, args) ==
    [method     |-> method,
     args       |-> args,
     responses  |-> <<>>,       \* what responseCallback was called with, in order
     returned   |-> Undefined,  \* what the handler returned to the host
     threw      |-> FALSE,      \* a collaborator call threw during the handler
     escaped    |-> FALSE,      \* the exception left the handler uncaught
     promise    |-> "none",     \* none; the collaborator's promise: pending,
                                \* fulfilled, rejected; local-rejected for
                                \* addSlideApp's own Promise.reject()
     unhandled  |-> FALSE,      \* the promise rejected and nothing handled it
     classifier |-> 0]          \* times makeSlideParams ran

\* responseCallback(v)
Responded(rec, v) == [rec EXCEPT !.responses = Append(@, v)]

\* a collaborator call threw and a catch of the handler took it
Caught(rec) == [rec EXCEPT !.threw = TRUE]

\* a collaborator call threw and nothing in the handler caught it
Escaped(rec) == [rec EXCEPT !.threw = TRUE, !.escaped = TRUE]

\* the handler returns v to the host (a synchronous namespace)
Returns(rec, v) == [rec EXCEPT !.returned = v]

\* the handler has hung its continuation on a collaborator's promise
Pending(rec) == [rec EXCEPT !.promise = "pending"]

\* collaborator.method(args)
Call(on, method, args) == [by |-> Me, op |-> "call", on |-> on, member |-> method, args |-> args]

\* a read of collaborator.property
Get(by, on, property) == [by |-> by, op |-> "get", on |-> on, member |-> property, args |-> <<>>]

\* faulty variant: the uses of the newest call are put ahead of the earlier ones
Handle_newestFirst(rec, uses, rm) ==
    /\ Len(inv) < MaxInv
    /\ inv' = Append(inv, rec)
    /\ calls' = uses \o calls
    /\ room' = rm
    /\ UNCHANGED <<manager, syncedStore, slideVars>>

\* the handler ran: its record, the collaborator uses it made, the room after
Handle(rec, uses, rm) ==
    /\ Len(inv) < MaxInv
    /\ inv' = Append(inv, rec)
    /\ calls' = calls \o uses
    /\ room' = rm
    /\ UNCHANGED <<manager, syncedStore, slideVars>>

\* what a synchronous collaborator call may throw
Thrown == Err("sdk failure")

\* what room.redo() and room.undo() may return
StepCounts == {0, 1}

ScenePaths == {"/b", "/zz"}

SceneIndices == {1, 9}

IndexOfPath(rm, path) ==
    LET hits == {i \in 1..Len(rm.scenes) :
                    rm.contextPath \o rm.scenes[i].fields[1][2].s = path}
    IN  IF hits = {} THEN rm.index ELSE Min(hits) - 1

(***************************************************************************)
(* RoomAsyncBridge: the handlers that answer before they return.           *)
(***************************************************************************)
redo ==
    \E throws \in BOOLEAN, count \in StepCounts :
        Handle(IF throws THEN Escaped(NewInv("redo", <<>>))
                         ELSE Responded(NewInv("redo", <<>>), Num(count)),
               <<Call("room", "redo", <<>>)>>, room)

undo ==
    \E throws \in BOOLEAN, count \in StepCounts :
        Handle(IF throws THEN Escaped(NewInv("undo", <<>>))
                         ELSE Responded(NewInv("undo", <<>>), Num(count)),
               <<Call("room", "undo", <<>>)>>, room)

canRedoSteps ==
    IF manager
    THEN Handle(Responded(NewInv("canRedoSteps", <<>>), Num(ManagerState.canRedoSteps)),
                <<Get(Me, "manager", "canRedoSteps")>>, room)
    ELSE Handle(Responded(NewInv("canRedoSteps", <<>>), Num(room.canRedoSteps)),
                <<Get(Me, "room", "canRedoSteps")>>, room)

canUndoSteps ==
    IF manager
    THEN Handle(Responded(NewInv("canUndoSteps", <<>>), Num(ManagerState.canUndoSteps)),
                <<Get(Me, "manager", "canUndoSteps")>>, room)
    ELSE Handle(Responded(NewInv("canUndoSteps", <<>>), Num(room.canUndoSteps)),
                <<Get(Me, "room", "canUndoSteps")>>, room)

setScenePath ==
    \E scenePath \in ScenePaths, throws \in BOOLEAN :
        LET rec == NewInv("setScenePath", <<Str(scenePath)>>)
            use == IF manager
                   THEN Call("manager", "setMainViewScenePath", <<Str(scenePath)>>)
                   ELSE Call("room", "setScenePath", <<Str(scenePath)>>)
        IN  IF throws
            THEN Handle(Responded(Caught(rec), ErrorPayload(Thrown)), <<use>>, room)
            ELSE Handle(Responded(rec, JSON_stringify(Obj(<<>>))), <<use>>,
                        IF manager THEN room
                        ELSE [room EXCEPT !.index = IndexOfPath(room, scenePath)])

setSceneIndex ==
    \E index \in SceneIndices, throws \in BOOLEAN :
        LET rec == NewInv("setSceneIndex", <<Num(index)>>)
            use == IF manager
                   THEN Call("manager", "setMainViewSceneIndex", <<Num(index)>>)
                   ELSE Call("room", "setSceneIndex", <<Num(index)>>)
            bad == throws \/ (~manager /\ index >= Len(room.scenes))
        IN  IF bad
            THEN Handle(Responded(Caught(rec), ErrorPayload(Thrown)), <<use>>, room)
            ELSE Handle(Responded(rec, JSON_stringify(Obj(<<>>))), <<use>>,
                        IF manager THEN room ELSE [room EXCEPT !.index = index])

getMemberState ==
    Handle(Responded(NewInv("getMemberState", <<>>), JSON_stringify(room.memberState)),
           <<Get(Me, "room", "state.memberState")>>, room)

getGlobalState ==
    Handle(Responded(NewInv("getGlobalState", <<>>), JSON_stringify(room.globalState)),
           <<Get(Me, "room", "state.globalState")>>, room)

getSceneState ==
    Handle(Responded(NewInv("getSceneState", <<>>), JSON_stringify(sceneState(room))),
           <<Get(Me, "room", "state.sceneState")>>, room)

getRoomMembers ==
    Handle(Responded(NewInv("getRoomMembers", <<>>), JSON_stringify(room.roomMembers)),
           <<Get(Me, "room", "state.roomMembers")>>, room)

getPptImages ==
    LET ppts == [i \in 1..Len(room.scenes) |->
                    IF Len(room.scenes[i].fields) >= 2
                    THEN room.scenes[i].fields[2][2].fields[1][2]
                    ELSE Str("")]
    IN  Handle(Responded(NewInv("getPptImages", <<>>), JSON_stringify(Arr(ppts))),
               <<Get(Me, "room", "state.sceneState")>>, room)

getScenes ==
    Handle(Responded(NewInv("getScenes", <<>>), JSON_stringify(Arr(room.scenes))),
           <<Get(Me, "room", "state.sceneState")>>, room)

\* faulty variant: the scale is handed over as a number, without JSON.stringify
getZoomScale_raw ==
    IF manager
    THEN Handle(Responded(NewInv("getZoomScale", <<>>), Num(ManagerState.scale)),
                <<Get(Me, "manager", "mainView.camera")>>, room)
    ELSE Handle(Responded(NewInv("getZoomScale", <<>>), Num(room.scale)),
                <<Get(Me, "room", "state.cameraState")>>, room)

getZoomScale ==
    IF manager
    THEN Handle(Responded(NewInv("getZoomScale", <<>>), JSON_stringify(Num(ManagerState.scale))),
                <<Get(Me, "manager", "mainView.camera")>>, room)
    ELSE Handle(Responded(NewInv("getZoomScale", <<>>), JSON_stringify(Num(room.scale))),
                <<Get(Me, "room", "state.cameraState")>>, room)

getBroadcastState ==
    Handle(Responded(NewInv("getBroadcastState", <<>>), JSON_stringify(room.broadcastState)),
           <<Get(Me, "room", "state.broadcastState")>>, room)

getRoomPhase ==
    Handle(Responded(NewInv("getRoomPhase", <<>>), Str(room.phase)),
           <<Get(Me, "room", "phase")>>, room)

getSyncedState ==
    IF syncedStore
    THEN Handle(Responded(NewInv("getSyncedState", <<>>), JSON_stringify(SyncedAttributes)),
                <<Get(Me, "syncedStore", "attributes")>>, room)
    ELSE Handle(Responded(NewInv("getSyncedState", <<>>), JSON_stringify(Obj(<<>>))),
                <<>>, room)

(***************************************************************************)
(* RoomAsyncBridge: paging, writable, disconnect, scenes, text.            *)
(***************************************************************************)
\* faulty variant: the index after the last scene is taken as a page
nextPage_pastEnd ==
    IF manager
    THEN \E throws \in BOOLEAN :
            Handle(IF throws THEN Escaped(NewInv("nextPage", <<>>))
                             ELSE Pending(NewInv("nextPage", <<>>)),
                   <<Call("manager", "nextPage", <<>>)>>, room)
    ELSE LET nextIndex == room.index + 1
             reads == <<Get(Me, "room", "state.sceneState"), Get(Me, "room", "state.sceneState")>>
         IN  IF nextIndex <= Len(room.scenes)
             THEN \E throws \in BOOLEAN :
                     LET use == Call("room", "setSceneIndex", <<Num(nextIndex)>>)
                     IN  IF throws
                         THEN Handle(Escaped(NewInv("nextPage", <<>>)), Append(reads, use), room)
                         ELSE Handle(Responded(NewInv("nextPage", <<>>), Bool(TRUE)),
                                     Append(reads, use), [room EXCEPT !.index = nextIndex])
             ELSE Handle(Responded(NewInv("nextPage", <<>>), Bool(FALSE)), reads, room)

nextPage ==
    IF manager
    THEN \E throws \in BOOLEAN :
            Handle(IF throws THEN Escaped(NewInv("nextPage", <<>>))
                             ELSE Pending(NewInv("nextPage", <<>>)),
                   <<Call("manager", "nextPage", <<>>)>>, room)
    ELSE LET nextIndex == room.index + 1
             reads == <<Get(Me, "room", "state.sceneState"), Get(Me, "room", "state.sceneState")>>
         IN  IF nextIndex < Len(room.scenes)
             THEN \E throws \in BOOLEAN :
                     LET use == Call("room", "setSceneIndex", <<Num(nextIndex)>>)
                     IN  IF throws
                         THEN Handle(Escaped(NewInv("nextPage", <<>>)), Append(reads, use), room)
                         ELSE Handle(Responded(NewInv("nextPage", <<>>), Bool(TRUE)),
                                     Append(reads, use), [room EXCEPT !.index = nextIndex])
             ELSE Handle(Responded(NewInv("nextPage", <<>>), Bool(FALSE)), reads, room)

prevPage ==
    IF manager
    THEN \E throws \in BOOLEAN :
            Handle(IF throws THEN Escaped(NewInv("prevPage", <<>>))
                             ELSE Pending(NewInv("prevPage", <<>>)),
                   <<Call("manager", "prevPage", <<>>)>>, room)
    ELSE LET prevIndex == room.index - 1
             reads == <<Get(Me, "room", "state.sceneState")>>
         IN  IF prevIndex >= 0
             THEN \E throws \in BOOLEAN :
                     LET use == Call("room", "setSceneIndex", <<Num(prevIndex)>>)
                     IN  IF throws
                         THEN Handle(Escaped(NewInv("prevPage", <<>>)), Append(reads, use), room)
                         ELSE Handle(Responded(NewInv("prevPage", <<>>), Bool(TRUE)),
                                     Append(reads, use), [room EXCEPT !.index = prevIndex])
             ELSE Handle(Responded(NewInv("prevPage", <<>>), Bool(FALSE)), reads, room)

setWritable ==
    \E writable \in BOOLEAN, throws \in BOOLEAN :
        Handle(IF throws THEN Escaped(NewInv("setWritable", <<Bool(writable)>>))
                         ELSE Pending(NewInv("setWritable", <<Bool(writable)>>)),
               <<Call("room", "setWritable", <<Bool(writable)>>)>>, room)

disconnect ==
    \E throws \in BOOLEAN :
        Handle(IF throws THEN Escaped(NewInv("disconnect", <<>>))
                         ELSE Pending(NewInv("disconnect", <<>>)),
               <<Call("room", "disconnect", <<>>)>>, room)

\* the scenes putScenes is handed
PutScenes == <<PlainScene("p")>>

\* room.putScenes(dir, scenes, index): the scenes go in at index
Inserted(rm, ss, index) ==
    [rm EXCEPT !.scenes = SubSeq(rm.scenes, 1, index) \o ss
                              \o SubSeq(rm.scenes, index + 1, Len(rm.scenes))]

putScenes ==
    \E throws \in BOOLEAN :
        LET args == <<Str(room.contextPath), Arr(PutScenes), Num(0)>>
            after == Inserted(room, PutScenes, 0)
        IN  IF throws
            THEN Handle(Escaped(NewInv("putScenes", args)),
                        <<Call("room", "putScenes", args)>>, room)
            ELSE Handle(Responded(NewInv("putScenes", args), JSON_stringify(sceneState(after))),
                        <<Call("room", "putScenes", args), Get(Me, "room", "state.sceneState")>>,
                        after)

insertText ==
    \E throws \in BOOLEAN :
        LET args == <<Num(0), Num(0), Str("hi")>>
            use  == IF manager THEN Call("manager", "mainView.insertText", args)
                               ELSE Call("room", "insertText", args)
        IN  IF throws
            THEN Handle(Escaped(NewInv("insertText", args)), <<use>>, room)
            ELSE Handle(Responded(NewInv("insertText", args),
                                  Str(IF manager THEN "mtext-1" ELSE "text-1")),
                        <<use>>, room)

(***************************************************************************)
(* RoomAsyncBridge: the handlers without a response callback.              *)
(***************************************************************************)
\* the enum ViewMode of the SDK
ViewMode == [Freedom |-> "freedom", Follower |-> "follower", Broadcaster |-> "broadcaster"]

\* the names the host passes to setViewMode
ViewModeNames == {"Broadcaster", "bogus"}

\* ViewMode[viewMode], ViewMode.Freedom when that is undefined
ModeOf(viewMode) ==
    IF viewMode \in DOMAIN ViewMode THEN ViewMode[viewMode] ELSE ViewMode.Freedom

\* faulty variant: the room's setViewMode is called whether a manager is set or not
setViewMode_roomAlways ==
    \E viewMode \in ViewModeNames, throws \in BOOLEAN :
        LET rec == NewInv("setViewMode", <<Str(viewMode)>>)
            use == Call("room", "setViewMode", <<Str(ModeOf(viewMode))>>)
        IN  IF throws
            THEN Handle(Escaped(rec), <<use>>, room)
            ELSE Handle(rec, <<use>>,
                        [room EXCEPT !.broadcastState =
                                         Obj(<< <<"mode", Str(ModeOf(viewMode))>> >>)])

setViewMode ==
    \E viewMode \in ViewModeNames, throws \in BOOLEAN :
        LET rec == NewInv("setViewMode", <<Str(viewMode)>>)
            use == IF manager
                   THEN Call("manager", "setViewMode", <<Str(ModeOf(viewMode))>>)
                   ELSE Call("room", "setViewMode", <<Str(ModeOf(viewMode))>>)
        IN  IF throws
            THEN Handle(Escaped(rec), <<use>>, room)
            ELSE Handle(rec, <<use>>,
                        IF manager THEN room
                        ELSE [room EXCEPT !.broadcastState =
                                              Obj(<< <<"mode", Str(ModeOf(viewMode))>> >>)])

\* the scene an addPage request carries (params.scene)
PageScene == PlainScene("q")

\* the params of the addPage requests the host makes
AddPageParams == {[after |-> a, scene |-> PageScene] : a \in BOOLEAN}

addPage ==
    \E params \in AddPageParams, throws \in BOOLEAN :
        LET rec == NewInv("addPage", <<params>>)
        IN  IF manager
            THEN Handle(IF throws THEN Escaped(rec) ELSE rec,
                        <<Call("manager", "addPage", <<params>>)>>, room)
            ELSE LET dir    == Get(Me, "room", "state.sceneState")
                     tIndex == room.index + 1
                     reads  == IF params.after THEN <<dir, dir>> ELSE <<dir>>
                     use    == IF params.after
                               THEN Call("room", "putScenes",
                                         <<Str(room.contextPath), Arr(<<params.scene>>), Num(tIndex)>>)
                               ELSE Call("room", "putScenes",
                                         <<Str(room.contextPath), Arr(<<params.scene>>)>>)
                     at     == IF params.after THEN tIndex ELSE Len(room.scenes)
                 IN  IF throws
                     THEN Handle(Escaped(rec), Append(reads, use), room)
                     ELSE Handle(rec, Append(reads, use),
                                 Inserted(room, <<params.scene>>, at))

(***************************************************************************)
(* App creation.  kind "Slide" asserts options.scenes non-null (opts.scenes!)*)
(* so a Slide request always carries a scene list.                         *)
(***************************************************************************)
\* faulty variant: the Slide app is handed the caller's scenes, not the stripped ones
addSlideApp_unstripped(scenePath, title, ss) ==
    LET p == makeSlideParams(ss)
    IN  IF p.taskId # Empty /\ p.url # Empty
        THEN [kind       |-> "Slide",
              options    |-> [scenePath |-> scenePath, title |-> title, scenes |-> ss],
              attributes |-> [taskId |-> p.taskId, url |-> p.url]]
        ELSE [kind       |-> "DocsViewer",
              options    |-> [scenePath |-> scenePath, title |-> title, scenes |-> ss]]

\* the argument addSlideApp hands to window.manager.addApp
addSlideApp(scenePath, title, ss) ==
    LET p == makeSlideParams(ss)
    IN  IF p.taskId # Empty /\ p.url # Empty
        THEN [kind       |-> "Slide",
              options    |-> [scenePath |-> scenePath, title |-> title,
                              scenes |-> p.scenesWithoutPPT],
              attributes |-> [taskId |-> p.taskId, url |-> p.url]]
        ELSE [kind       |-> "DocsViewer",
              options    |-> [scenePath |-> scenePath, title |-> title, scenes |-> ss]]

\* faulty variant: the attributes are left out of the forwarded request
ForwardedApp_noAttributes(kind, options, attributes) ==
    [kind |-> kind, options |-> options]

\* the argument addApp hands to window.manager.addApp for another kind
ForwardedApp(kind, options, attributes) ==
    [kind |-> kind, options |-> options, attributes |-> attributes]

AppOptions(ss) == [scenePath |-> "/deck", title |-> "Deck", scenes |-> ss]

\* the addApp requests the host makes
AddAppRequests ==
    {[kind |-> "Slide",
      options |-> AppOptions(<<Scene("a", NoPpt), Scene("b", Ppt(SrcA)), Scene("c", Ppt(SrcB))>>),
      attributes |-> Undefined],
     [kind |-> "Slide",
      options |-> AppOptions(<<Scene("a", Ppt(SrcBad)), Scene("b", NoPpt)>>),
      attributes |-> Obj(<< <<"taskId", Str("zz")>> >>)],
     [kind |-> "DocsViewer",
      options |-> AppOptions(<<Scene("a", Ppt(SrcA))>>),
      attributes |-> Undefined],
     [kind |-> "Plyr",
      options |-> [title |-> "Video"],
      attributes |-> Obj(<< <<"src", Str("v.mp4")>> >>)]}

\* addApp with window.manager read as mgr
addAppWith(mgr) ==
    \E req \in AddAppRequests, throws \in BOOLEAN :
        LET rec == NewInv("addApp", <<req.kind, req.options, req.attributes>>)
        IN  IF ~mgr
            THEN Handle(rec, <<>>, room)
            ELSE IF req.kind = "Slide"
            THEN LET ran == [rec EXCEPT !.classifier = @ + 1]
                     use == Call("manager", "addApp",
                                 <<addSlideApp(req.options.scenePath, req.options.title,
                                               req.options.scenes)>>)
                 IN  IF throws      \* caught in addSlideApp: return Promise.reject()
                     THEN Handle([Caught(ran) EXCEPT !.promise = "local-rejected",
                                                     !.unhandled = TRUE],
                                 <<use>>, room)
                     ELSE Handle(Pending(ran), <<use>>, room)
            ELSE LET use == Call("manager", "addApp",
                                 <<ForwardedApp(req.kind, req.options, req.attributes)>>)
                 IN  IF throws
                     THEN Handle(Escaped(rec), <<use>>, room)
                     ELSE Handle(Pending(rec), <<use>>, room)

\* faulty variant: addApp without its test of window.manager
addApp_noManagerTest == addAppWith(TRUE)

addApp == addAppWith(manager)

AppIds == {"app-1"}

closeApp ==
    \E appId \in AppIds, throws \in BOOLEAN :
        LET rec == NewInv("closeApp", <<Str(appId)>>)
        IN  IF ~manager
            THEN Handle(rec, <<>>, room)
            ELSE Handle(IF throws THEN Escaped(rec) ELSE Pending(rec),
                        <<Call("manager", "closeApp", <<Str(appId)>>)>>, room)

(***************************************************************************)
(* RoomStateBridge (namespace room.state): synchronous, direct return.     *)
(***************************************************************************)
getTimeDelay ==
    Handle(Returns(NewInv("state.getTimeDelay", <<>>), Num(room.timeDelay)),
           <<Get(Me, "room", "timeDelay")>>, room)

getPhase ==
    Handle(Returns(NewInv("state.getPhase", <<>>), Str(room.phase)),
           <<Get(Me, "room", "phase")>>, room)

isWritable ==
    Handle(Returns(NewInv("state.isWritable", <<>>), Bool(room.isWritable)),
           <<Get(Me, "room", "isWritable")>>, room)

(***************************************************************************)
(* RoomSyncBridge (namespace room.sync): synchronous, nothing returned.    *)
(***************************************************************************)
\* collaborator.property = value
Set(on, property, value) ==
    [by |-> Me, op |-> "set", on |-> on, member |-> property, args |-> <<value>>]

\* dsBridge.call(name, value): a notification sent to the host
Notify(name, value) ==
    [by |-> Me, op |-> "notify", on |-> "dsBridge", member |-> name, args |-> <<value>>]

\* disableSerialization with window.manager == null read as single
disableSerializationWith(single) ==
    \E disable \in BOOLEAN :
        LET rec   == NewInv("sync.disableSerialization", <<Bool(disable)>>)
            write == Set("room", "disableSerialization", Bool(disable))
            rm    == [room EXCEPT !.disableSerialization = disable]
        IN  IF ~disable /\ single
            THEN Handle(rec,
                        <<write,
                          Get(Me, "room", "canUndoSteps"),
                          Notify("room.fireCanUndoStepsUpdate", Num(rm.canUndoSteps)),
                          Get(Me, "room", "canRedoSteps"),
                          Notify("room.fireCanRedoStepsUpdate", Num(rm.canRedoSteps))>>,
                        rm)
            ELSE Handle(rec, <<write>>, rm)

\* faulty variant: disableSerialization without its test of window.manager
disableSerialization_noManagerTest == disableSerializationWith(TRUE)

disableSerialization == disableSerializationWith(~manager)

(***************************************************************************)
(* The continuations hung on the collaborators' promises.                  *)
(***************************************************************************)
IsPending(k, method) == inv[k].method = method /\ inv[k].promise = "pending"

\* the promise of call k settles as how, and responseCallback gets v
SettleWith(k, how, v, uses, rm) ==
    /\ inv' = [inv EXCEPT ![k] = Responded([@ EXCEPT !.promise = how], v)]
    /\ calls' = calls \o uses
    /\ room' = rm
    /\ UNCHANGED <<manager, syncedStore, slideVars>>

\* what a collaborator's promise may reject with
Rejection == Err("sdk rejected")

setWritable_then ==
    \E k \in 1..Len(inv) :
        /\ IsPending(k, "setWritable")
        /\ LET rm == [room EXCEPT !.isWritable = inv[k].args[1].b]
           IN  SettleWith(k, "fulfilled",
                          JSON_stringify(Obj(<< <<"isWritable", Bool(rm.isWritable)>>,
                                                <<"observerId", Num(rm.observerId)>> >>)),
                          <<Get(k, "room", "isWritable"), Get(k, "room", "observerId")>>, rm)

setWritable_catch ==
    \E k \in 1..Len(inv) :
        /\ IsPending(k, "setWritable")
        /\ SettleWith(k, "rejected", ErrorPayload(Rejection), <<>>, room)

disconnect_then ==
    \E k \in 1..Len(inv) :
        /\ IsPending(k, "disconnect")
        /\ SettleWith(k, "fulfilled", Undefined, <<>>, [room EXCEPT !.phase = "disconnected"])

nextPage_then ==
    \E k \in 1..Len(inv), pageResult \in BOOLEAN :
        /\ IsPending(k, "nextPage")
        /\ SettleWith(k, "fulfilled", Bool(pageResult), <<>>, room)

prevPage_then ==
    \E k \in 1..Len(inv), pageResult \in BOOLEAN :
        /\ IsPending(k, "prevPage")
        /\ SettleWith(k, "fulfilled", Bool(pageResult), <<>>, room)

addApp_then ==
    \E k \in 1..Len(inv), appId \in {Str(a) : a \in AppIds} \cup {Undefined} :
        /\ IsPending(k, "addApp")
        /\ SettleWith(k, "fulfilled", appId, <<>>, room)

closeApp_then ==
    \E k \in 1..Len(inv) :
        /\ IsPending(k, "closeApp")
        /\ SettleWith(k, "fulfilled", Undefined, <<>>, room)

\* the promises whose continuation is a then without a catch
NoCatch == {"disconnect", "nextPage", "prevPage", "addApp", "closeApp"}

\* such a promise rejects: no continuation runs
UnhandledRejection ==
    \E k \in 1..Len(inv) :
        /\ inv[k].promise = "pending"
        /\ inv[k].method \in NoCatch
        /\ inv' = [inv EXCEPT ![k] = [@ EXCEPT !.promise = "rejected", !.unhandled = TRUE]]
        /\ UNCHANGED <<calls, room, manager, syncedStore, slideVars>>

(***************************************************************************)
(* Spec: the bridge registered on a room, with or without a window manager *)
(* and a synced store; both are set once, before the first call.           *)
(***************************************************************************)
Init ==
    /\ manager \in BOOLEAN
    /\ syncedStore \in BOOLEAN
    /\ room = RoomInit
    /\ inv = <<>>
    /\ calls = <<>>
    /\ scenes = <<>>
    /\ result = NotCalled
    /\ roomResult = NotCalled

Next ==
    \/ redo
    \/ undo
    \/ canRedoSteps
    \/ canUndoSteps
    \/ setScenePath
    \/ nextPage
    \/ prevPage
    \/ setWritable
    \/ getMemberState
    \/ getGlobalState
    \/ getSceneState
    \/ getRoomMembers
    \/ getPptImages
    \/ setSceneIndex
    \/ getScenes
    \/ getZoomScale
    \/ getBroadcastState
    \/ getRoomPhase
    \/ disconnect
    \/ putScenes
    \/ insertText
    \/ addApp
    \/ closeApp
    \/ getSyncedState
    \/ getTimeDelay
    \/ getPhase
    \/ isWritable
    \/ setViewMode
    \/ addPage
    \/ disableSerialization
    \/ setWritable_then
    \/ setWritable_catch
    \/ disconnect_then
    \/ nextPage_then
    \/ prevPage_then
    \/ addApp_then
    \/ closeApp_then
    \/ UnhandledRejection

Spec == Init /\ [][Next]_vars

(***************************************************************************)
(* SlideSpec: makeSlideParams applied to a drawn scene list.               *)
(***************************************************************************)
BridgeIdle ==
    /\ manager = FALSE
    /\ syncedStore = FALSE
    /\ room = RoomInit
    /\ inv = <<>>
    /\ calls = <<>>

SlideInit ==
    /\ scenes \in SlideInputs
    /\ result = NotCalled
    /\ roomResult = NotCalled
    /\ BridgeIdle

CallMakeSlideParams ==
    /\ ~result.called
    /\ result' = Returned(makeSlideParams(scenes))
    /\ UNCHANGED <<scenes, roomResult, bridgeVars>>

CallRoomMakeSlideParams ==
    /\ ~roomResult.called
    /\ roomResult' = Returned(Room_makeSlideParams(scenes))
    /\ UNCHANGED <<scenes, result, bridgeVars>>

SlideNext == CallMakeSlideParams \/ CallRoomMakeSlideParams

SlideSpec == SlideInit /\ [][SlideNext]_vars

(***************************************************************************)
(* The slide-source form, stated without the matcher: every way of reading *)
(* str as  ppt[x]://<path>dynamicConvert/<taskId>/<rest>  with <taskId> a  *)
(* non-empty run of word characters.                                       *)
(***************************************************************************)
\* the word characters that follow from position t on
WordRun(str, t) ==
    CHOOSE n \in 0..Len(str) :
        /\ \A q \in t..(t + n - 1) : q <= Len(str) /\ IsWord(str[q])
        /\ (t + n > Len(str) \/ ~IsWord(str[t + n]))

\* first character of <taskId> in the reading d
TaskStart(d) == d.scheme + 4 + d.pathLen + Len(dynamicConvert) + 1

Decomps(str) ==
    {d \in [scheme : {3, 4}, pathLen : 0..Len(str)] :
        /\ LitAt(str, 1, ppt)
        /\ d.scheme = 4 => LitAt(str, 4, <<"x">>)
        /\ LitAt(str, d.scheme + 1, sep)
        /\ LitAt(str, d.scheme + 4 + d.pathLen, dynamicConvert \o slash)
        /\ WordRun(str, TaskStart(d)) >= 1
        /\ LitAt(str, TaskStart(d) + WordRun(str, TaskStart(d)), slash)}

PathOf(str, d) == SubSeq(str, d.scheme + 4, d.scheme + 3 + d.pathLen)

TaskOf(str, d) ==
    SubSeq(str, TaskStart(d), TaskStart(d) + WordRun(str, TaskStart(d)) - 1)

UrlOf(str, d) == https \o sep \o PathOf(str, d) \o dynamicConvert

\* <path> is a non-empty run of non-whitespace characters
PathQualifies(str, d) ==
    /\ d.pathLen >= 1
    /\ \A q \in (d.scheme + 4)..(d.scheme + 3 + d.pathLen) : str[q] \notin WhiteSpace

Qualifying(str) == {d \in Decomps(str) : PathQualifies(str, d)}

\* the reading with the shortest qualifying <path>
Shortest(str) ==
    LET Q == Qualifying(str)
    IN  CHOOSE d \in Q : \A o \in Q : d.pathLen <= o.pathLen

\* the scene carries a slide source that starts with "ppt" and has the form
IsSlideScene(sc) ==
    /\ sc.ppt.present
    /\ startsWith(sc.ppt.src, ppt)
    /\ Qualifying(sc.ppt.src) # {}

SlideIdx(ss) == {i \in 1..Len(ss) : IsSlideScene(ss[i])}

(***************************************************************************)
(* Claims about makeSlideParams (checked under SlideSpec).                 *)
(***************************************************************************)
\* C1: the stripped list returned by makeSlideParams has exactly as many
\* entries as the input, and entry i is the record holding the name of input
\* scene i and no other field, wherever a scene matched.
C1_StrippedKeepsNames ==
    result.called =>
        /\ Len(result.value.scenesWithoutPPT) = Len(scenes)
        /\ \A i \in 1..Len(scenes) :
               result.value.scenesWithoutPPT[i] = [name |-> scenes[i].name]

\* a three-scene list whose first scene matches has been stripped
C1_Witness ==
    /\ result.called
    /\ Len(scenes) = 3
    /\ 1 \in SlideIdx(scenes)
    /\ scenes[1].name # scenes[2].name
    /\ Len(result.value.scenesWithoutPPT) = 3

\* C2: both versions of makeSlideParams take the task id and the base url
\* from the first scene, in input order, whose source starts with "ppt" and
\* has the slide-source form; earlier scenes are skipped and later scenes,
\* matching or not, do not change the result.
C2_FirstMatchWins ==
    \A r \in {result, roomResult} :
        (r.called /\ SlideIdx(scenes) # {}) =>
            LET src == scenes[Min(SlideIdx(scenes))].ppt.src
            IN  /\ r.value.taskId = TaskOf(src, Shortest(src))
                /\ r.value.url = UrlOf(src, Shortest(src))

\* the second and the third scene match, with different task ids, the first
\* does not, and the second scene's task id came back
C2_Witness ==
    /\ result.called
    /\ roomResult.called
    /\ SlideIdx(scenes) = {2, 3}
    /\ scenes[2].ppt.src = SrcA
    /\ scenes[3].ppt.src = SrcB
    /\ result.value.taskId = <<"t","1">>
    /\ roomResult.value.taskId = <<"t","1">>

\* the one scene of a one-scene list
OnlySrc == scenes[1].ppt.src

\* C3 as stated: for every reading of the source as
\* ppt[x]://<path>dynamicConvert/<taskId>/..., makeSlideParams returns
\* task_id = <taskId> and base_url = "https://" <path> "dynamicConvert".
\* (<path> is taken as a non-empty run of non-whitespace characters, the
\* reading most favourable to the statement.)
C3_AsStated ==
    (result.called /\ Len(scenes) = 1 /\ scenes[1].ppt.present) =>
        \A d \in Qualifying(OnlySrc) :
            /\ result.value.taskId = TaskOf(OnlySrc, d)
            /\ result.value.url = UrlOf(OnlySrc, d)

\* C3 amended: the same, for the reading whose <path> is the shortest
\* non-empty run of non-whitespace characters that gives the source this form.
C3_ShortestPath ==
    (result.called /\ Len(scenes) = 1 /\ scenes[1].ppt.present
        /\ Qualifying(OnlySrc) # {}) =>
            /\ result.value.taskId = TaskOf(OnlySrc, Shortest(OnlySrc))
            /\ result.value.url = UrlOf(OnlySrc, Shortest(OnlySrc))

\* the spec's example: ppt://cdn.example.com/dynamicConvert/abc123/1.slide
\* gives abc123 and https://cdn.example.com/dynamicConvert
C3_Witness ==
    /\ result.called
    /\ scenes = <<Scene("a", Ppt(SrcExample))>>
    /\ result.value.taskId = <<"a","b","c","1","2","3">>
    /\ result.value.url =
          https \o sep \o <<"c","d","n",".","e","x","a","m","p","l","e",".","c","o","m","/">>
                \o dynamicConvert

\* C4: when no scene has a source that starts with "ppt" and has the
\* slide-source form, makeSlideParams returns with task id and url both "".
C4_NoMatchGivesEmpty ==
    (result.called /\ SlideIdx(scenes) = {}) =>
        /\ result.value.taskId = Empty
        /\ result.value.url = Empty

\* a list holding a scene without ppt and a scene whose ppt source is
\* malformed has been classified
C4_Witness ==
    /\ result.called
    /\ SlideIdx(scenes) = {}
    /\ \E i \in 1..Len(scenes) : ~scenes[i].ppt.present
    /\ \E i \in 1..Len(scenes) : scenes[i].ppt.present /\ scenes[i].ppt.src = SrcBad
    /\ result.value.taskId = Empty

(***************************************************************************)
(* Claims about the bridge (checked under Spec).                           *)
(***************************************************************************)
\* the collaborator methods call k invoked, in order
MethodCallsBy(k) == SelectSeq(calls, LAMBDA c : c.by = k /\ c.op = "call")

\* every use of a collaborator by call k, reads included
UsesBy(k) == SelectSeq(calls, LAMBDA c : c.by = k)

IsAddApp(k) == inv[k].method = "addApp"

IsSlideApp(k) == IsAddApp(k) /\ inv[k].args[1] = "Slide"

NameOnly(ss) == [i \in 1..Len(ss) |-> [name |-> ss[i].name]]

\* C5: for an addApp request of kind "Slide" with a window manager active,
\* exactly one manager.addApp call is made: kind "Slide" with attributes
\* {taskId, url} and the name-only scenes when the classifier yields a
\* non-empty task id and url, else the document viewer with the caller's
\* scenes as they came.
C5_SlideDispatch ==
    \A k \in 1..Len(inv) :
        (IsSlideApp(k) /\ manager) =>
            LET o  == inv[k].args[2]
                p  == makeSlideParams(o.scenes)
                cs == MethodCallsBy(k)
            IN  /\ Len(cs) = 1
                /\ cs[1].on = "manager"
                /\ cs[1].member = "addApp"
                /\ cs[1].args =
                      IF p.taskId # Empty /\ p.url # Empty
                      THEN <<[kind       |-> "Slide",
                              options    |-> [scenePath |-> o.scenePath, title |-> o.title,
                                              scenes |-> NameOnly(o.scenes)],
                              attributes |-> [taskId |-> p.taskId, url |-> p.url]]>>
                      ELSE <<[kind       |-> "DocsViewer",
                              options    |-> [scenePath |-> o.scenePath, title |-> o.title,
                                              scenes |-> o.scenes]]>>

\* one Slide request went to the Slide app and another to the document viewer
C5_Witness ==
    /\ manager
    /\ Len(inv) = 2
    /\ IsSlideApp(1)
    /\ IsSlideApp(2)
    /\ Len(calls) = 2
    /\ calls[1].args[1].kind = "Slide"
    /\ calls[1].args[1].attributes.taskId = <<"t","1">>
    /\ calls[2].args[1].kind = "DocsViewer"

\* C6: for an addApp request of any other kind the classifier is not run and
\* what is handed to manager.addApp is the caller's kind, options and
\* attributes, unchanged.
C6_OtherKindsForwarded ==
    \A k \in 1..Len(inv) :
        (IsAddApp(k) /\ ~IsSlideApp(k)) =>
            /\ inv[k].classifier = 0
            /\ \A j \in 1..Len(MethodCallsBy(k)) :
                   /\ MethodCallsBy(k)[j].member = "addApp"
                   /\ MethodCallsBy(k)[j].args = <<[kind       |-> inv[k].args[1],
                                                    options    |-> inv[k].args[2],
                                                    attributes |-> inv[k].args[3]]>>
            /\ manager => Len(MethodCallsBy(k)) = 1

\* a Plyr request with attributes was forwarded to the manager
C6_Witness ==
    /\ manager
    /\ \E k \in 1..Len(inv) :
          /\ IsAddApp(k)
          /\ inv[k].args[1] = "Plyr"
          /\ Len(MethodCallsBy(k)) = 1
          /\ MethodCallsBy(k)[1].args[1].attributes = Obj(<< <<"src", Str("v.mp4")>> >>)

\* the operations completed through a collaborator's promise
AsyncMethods == {"setWritable", "disconnect", "nextPage", "prevPage", "addApp", "closeApp"}

\* C7: for every invocation of an asynchronously completed operation, once
\* the collaborator's promise has settled, fulfilled or rejected, the
\* response callback has been invoked exactly once.
C7_SettledAnswersOnce ==
    \A k \in 1..Len(inv) :
        (inv[k].method \in AsyncMethods /\ inv[k].promise \in {"fulfilled", "rejected"}) =>
            Len(inv[k].responses) = 1

\* C8: an exception thrown by a collaborator during a bridge method never
\* leaves the method: it is caught there and the caller gets the structured
\* __error payload.
C8_ThrownIsDelivered ==
    \A k \in 1..Len(inv) :
        inv[k].threw =>
            /\ ~inv[k].escaped
            /\ ~inv[k].unhandled
            /\ inv[k].responses = <<ErrorPayload(Thrown)>>

\* C9: without a window manager, an addApp request of kind "Slide" uses no
\* collaborator and its response callback is never invoked: nothing is
\* pending that could invoke it later.
C9_SlideWithoutManagerIsSilent ==
    \A k \in 1..Len(inv) :
        (IsSlideApp(k) /\ ~manager) =>
            /\ UsesBy(k) = <<>>
            /\ inv[k].responses = <<>>
            /\ inv[k].promise = "none"
            /\ ~inv[k].threw

\* a Slide request was dispatched without a manager and another call
\* followed it
C9_Witness ==
    /\ ~manager
    /\ Len(inv) = 2
    /\ IsSlideApp(1)
    /\ inv[2].method = "getZoomScale"
    /\ Len(inv[2].responses) = 1

(***************************************************************************)
(* JSON documents: a string is JSON-encoded when it is the encoding of a   *)
(* value.  The values are those the collaborators hold in any state of the *)
(* model, and the scalars, so that a bare string is told from its encoding.*)
(***************************************************************************)
\* the scene lists the room can hold after n insertions by putScenes or addPage
RECURSIVE ScenesAfter(_)
ScenesAfter(n) ==
    IF n = 0
    THEN {RoomInit.scenes}
    ELSE LET before == ScenesAfter(n - 1)
         IN  before \cup
             UNION {{SubSeq(ss, 1, i) \o new \o SubSeq(ss, i + 1, Len(ss)) :
                        new \in {PutScenes, <<PageScene>>}, i \in 0..Len(ss)} :
                    ss \in before}

RoomUniverse ==
    {[RoomInit EXCEPT !.scenes = ss, !.index = i] :
        ss \in ScenesAfter(MaxInv), i \in 0..(Len(RoomInit.scenes) + MaxInv)}

PptsOf(rm) ==
    Arr([i \in 1..Len(rm.scenes) |->
            IF Len(rm.scenes[i].fields) >= 2
            THEN rm.scenes[i].fields[2][2].fields[1][2]
            ELSE Str("")])

JsonValues ==
    {Obj(<<>>), RoomInit.memberState, RoomInit.globalState, RoomInit.roomMembers,
     RoomInit.broadcastState, SyncedAttributes, ErrorObj(Thrown), ErrorObj(Rejection)}
    \cup {Obj(<< <<"mode", Str(ViewMode[m])>> >>) : m \in DOMAIN ViewMode}
    \cup {Num(n) : n \in 0..9}
    \cup {Bool(b) : b \in BOOLEAN}
    \cup {Str(x) : x \in {"", "connected", "disconnected", "text-1", "mtext-1"} \cup AppIds}
    \cup {Obj(<< <<"isWritable", Bool(w)>>, <<"observerId", Num(RoomInit.observerId)>> >>) :
             w \in BOOLEAN}
    \cup {sceneState(rm) : rm \in RoomUniverse}
    \cup {Arr(rm.scenes) : rm \in RoomUniverse}
    \cup {PptsOf(rm) : rm \in RoomUniverse}

JsonTexts == {JSONText(v) : v \in JsonValues}

IsJsonString(v) == v.t = "string" /\ v.s \in JsonTexts

IsErrorPayload(v) == v \in {ErrorPayload(Thrown), ErrorPayload(Rejection)}

\* the methods of RoomAsyncBridge (namespace room), as opposed to room.state
RoomMethods ==
    {"redo", "undo", "canRedoSteps", "canUndoSteps", "setScenePath", "nextPage",
     "prevPage", "setWritable", "getMemberState", "getGlobalState", "getSceneState",
     "getRoomMembers", "getPptImages", "setSceneIndex", "getScenes", "getZoomScale",
     "getBroadcastState", "getRoomPhase", "disconnect", "putScenes", "insertText",
     "addApp", "closeApp", "getSyncedState", "setViewMode", "addPage"}

\* the methods of namespace room whose results are not encoded
NativeMethods ==
    {"redo", "undo", "canRedoSteps", "canUndoSteps", "nextPage", "prevPage",
     "getRoomPhase", "disconnect", "insertText", "addApp", "closeApp"}

\* C10 as stated: every non-error result a method of namespace room passes
\* to its response callback is a JSON-encoded string.
C10_AsStated ==
    \A k \in 1..Len(inv) :
        inv[k].method \in RoomMethods =>
            \A j \in 1..Len(inv[k].responses) :
                \/ IsErrorPayload(inv[k].responses[j])
                \/ IsJsonString(inv[k].responses[j])

\* C10 amended: every result, error payloads included, passed by a method of
\* namespace room other than redo, undo, canRedoSteps, canUndoSteps,
\* nextPage, prevPage, getRoomPhase, disconnect, insertText, addApp and
\* closeApp is a JSON-encoded string; those eleven pass native values (a
\* number, a boolean, a bare string or undefined), and so does what the
\* room.state methods return.
C10_EncodedExceptNative ==
    \A k \in 1..Len(inv) :
        /\ (inv[k].method \in RoomMethods \ NativeMethods) =>
               \A j \in 1..Len(inv[k].responses) : IsJsonString(inv[k].responses[j])
        /\ (inv[k].method \in NativeMethods) =>
               \A j \in 1..Len(inv[k].responses) : ~IsJsonString(inv[k].responses[j])
        /\ (inv[k].method \notin RoomMethods) =>
               /\ inv[k].responses = <<>>
               /\ ~IsJsonString(inv[k].returned)

\* getZoomScale answered with the text "1" and redo with a number
C10_Witness ==
    /\ ~manager
    /\ Len(inv) = 2
    /\ inv[1].method = "getZoomScale"
    /\ inv[1].responses = <<Str("1")>>
    /\ inv[2].method = "redo"
    /\ inv[2].responses = <<Num(1)>>

(***************************************************************************)
(* The methods that choose between the window manager and the room.        *)
(***************************************************************************)
DualBackend ==
    {"setScenePath", "setSceneIndex", "setViewMode", "nextPage", "prevPage",
     "addPage", "insertText", "getZoomScale", "canUndoSteps", "canRedoSteps"}

\* the member of window.manager each of them uses
ManagerEquivalent ==
    [setScenePath  |-> "setMainViewScenePath",
     setSceneIndex |-> "setMainViewSceneIndex",
     setViewMode   |-> "setViewMode",
     nextPage      |-> "nextPage",
     prevPage      |-> "prevPage",
     addPage       |-> "addPage",
     insertText    |-> "mainView.insertText",
     getZoomScale  |-> "mainView.camera",
     canUndoSteps  |-> "canUndoSteps",
     canRedoSteps  |-> "canRedoSteps"]

\* the members of the room each of them uses
RoomEquivalent ==
    [setScenePath  |-> {"setScenePath"},
     setSceneIndex |-> {"setSceneIndex"},
     setViewMode   |-> {"setViewMode"},
     nextPage      |-> {"state.sceneState", "setSceneIndex"},
     prevPage      |-> {"state.sceneState", "setSceneIndex"},
     addPage       |-> {"state.sceneState", "putScenes"},
     insertText    |-> {"insertText"},
     getZoomScale  |-> {"state.cameraState"},
     canUndoSteps  |-> {"canUndoSteps"},
     canRedoSteps  |-> {"canRedoSteps"}]

\* C11: every invocation of a dual-backend method uses one backend only: with
\* a window manager set it makes exactly one use, of the manager's equivalent
\* member, and none of the room; without one it uses the room's equivalent
\* members and nothing else.
C11_ExactlyOneBackend ==
    \A k \in 1..Len(inv) :
        inv[k].method \in DualBackend =>
            LET us == UsesBy(k)
            IN  /\ Len(us) >= 1
                /\ manager =>
                       /\ Len(us) = 1
                       /\ us[1].on = "manager"
                       /\ us[1].member = ManagerEquivalent[inv[k].method]
                /\ ~manager =>
                       \A j \in 1..Len(us) :
                           /\ us[j].on = "room"
                           /\ us[j].member \in RoomEquivalent[inv[k].method]

\* with a window manager set, setViewMode and then insertText went to the
\* manager and the room was not used
C11_Witness ==
    /\ manager
    /\ Len(inv) = 2
    /\ inv[1].method = "setViewMode"
    /\ inv[2].method = "insertText"
    /\ Len(calls) = 2
    /\ calls[1].on = "manager"
    /\ calls[1].member = "setViewMode"
    /\ calls[2].on = "manager"
    /\ calls[2].member = "mainView.insertText"

(***************************************************************************)
(* Order of the delegated calls.                                           *)
(***************************************************************************)
\* the methods that call a collaborator method on every path, in both modes
AlwaysDelegating ==
    {"redo", "undo", "setScenePath", "setSceneIndex", "setWritable", "disconnect",
     "putScenes", "insertText", "setViewMode", "addPage"}

\* the collaborator method calls issued so far, in issue order
MethodCalls == SelectSeq(calls, LAMBDA c : c.op = "call")

\* C12: the collaborator method calls are issued in the order in which the
\* bridge calls were dispatched: a call made for a later bridge call never
\* precedes one made for an earlier bridge call, no bridge call has its
\* delegated call issued twice, and a bridge call that delegates on every path
\* has its call issued by the time the next bridge call can be dispatched
\* (nothing is held back or dropped).
C12_CallsInDispatchOrder ==
    /\ \A i, j \in 1..Len(MethodCalls) :
           i < j => MethodCalls[i].by < MethodCalls[j].by
    /\ \A k \in 1..Len(inv) :
           /\ Len(MethodCallsBy(k)) <= 1
           /\ inv[k].method \in AlwaysDelegating => Len(MethodCallsBy(k)) = 1

\* setWritable and then redo were dispatched, room.setWritable was called
\* before room.redo, and the continuation of setWritable ran after redo
C12_Witness ==
    /\ Len(inv) = 2
    /\ inv[1].method = "setWritable"
    /\ inv[1].promise = "fulfilled"
    /\ inv[2].method = "redo"
    /\ Len(calls) = 4
    /\ calls[1].member = "setWritable"
    /\ calls[2].member = "redo"
    /\ calls[3].by = 1
    /\ calls[3].op = "get"

(***************************************************************************)
(* The stripped list of the Room.ts version (checked under SlideSpec).     *)
(***************************************************************************)
\* C13: the stripped list returned by the Room.ts version of makeSlideParams
\* has as many entries as the input, wherever the matching scene stands.
C13_RoomLengthEqual ==
    roomResult.called =>
        Len(roomResult.value.scenesWithoutPPT) = Len(scenes)

(***************************************************************************)
(* Paging in single-room mode (checked under Spec).                        *)
(***************************************************************************)
\* this step dispatches a call of method in single-room mode
PageStep(method) ==
    /\ ~manager
    /\ Len(inv') = Len(inv) + 1
    /\ inv'[Len(inv')].method = method

\* what this step adds to the collaborator uses, the state reads left out
MadeInStep ==
    SelectSeq(SubSeq(calls', Len(calls) + 1, Len(calls')), LAMBDA c : c.op # "get")

\* the answer of the call this step dispatches, the index it aims at and
\* whether that index is a page: true exactly when it is a page (and
\* room.setSceneIndex did not throw), with the index moved there by one
\* room.setSceneIndex call; false exactly when it is not, with the room left
\* as it was and no room method called
PageAnswer(target, isPage) ==
    LET rec == inv'[Len(inv')]
    IN  /\ (rec.responses = <<Bool(TRUE)>>) <=> (isPage /\ ~rec.threw)
        /\ (rec.responses = <<Bool(FALSE)>>) <=> ~isPage
        /\ rec.responses = <<Bool(TRUE)>> =>
               /\ room' = [room EXCEPT !.index = target]
               /\ MadeInStep = <<[by |-> Len(inv'), op |-> "call", on |-> "room",
                                  member |-> "setSceneIndex", args |-> <<Num(target)>>]>>
        /\ rec.responses = <<Bool(FALSE)>> =>
               /\ room' = room
               /\ MadeInStep = <<>>

PagingStep ==
    /\ room'.index \in 0..(Len(room'.scenes) - 1)
    /\ PageStep("nextPage") => PageAnswer(room.index + 1, room.index + 1 < Len(room.scenes))
    /\ PageStep("prevPage") => PageAnswer(room.index - 1, room.index - 1 >= 0)

IsDisableSerialization(k) == inv[k].method = "sync.disableSerialization"

\* the notifications call k sent to the host, in order
NotificationsBy(k) == SelectSeq(calls, LAMBDA c : c.by = k /\ c.op = "notify")

\* the property writes call k made, in order
WritesBy(k) == SelectSeq(calls, LAMBDA c : c.by = k /\ c.op = "set")

\* the notification name carrying the step count n
Notification(k, name, n) ==
    [by |-> k, op |-> "notify", on |-> "dsBridge", member |-> name, args |-> <<Num(n)>>]

\* C15: disableSerialization(disable) writes disable to the room's
\* disableSerialization flag, and sends room.fireCanUndoStepsUpdate and then
\* room.fireCanRedoStepsUpdate, with the room's undo and redo step counts,
\* exactly when disable is false and no window manager is set; otherwise it
\* sends nothing.
C15_NotifiesWhenEnabledAlone ==
    /\ \A k \in 1..Len(inv) :
           IsDisableSerialization(k) =>
               /\ WritesBy(k) = <<[by |-> k, op |-> "set", on |-> "room",
                                   member |-> "disableSerialization",
                                   args |-> <<inv[k].args[1]>>]>>
               /\ NotificationsBy(k) =
                      IF ~inv[k].args[1].b /\ ~manager
                      THEN <<Notification(k, "room.fireCanUndoStepsUpdate", room.canUndoSteps),
                             Notification(k, "room.fireCanRedoStepsUpdate", room.canRedoSteps)>>
                      ELSE <<>>
    /\ \A k \in 1..Len(inv) :
           (IsDisableSerialization(k)
               /\ \A l \in (k + 1)..Len(inv) : ~IsDisableSerialization(l)) =>
                   room.disableSerialization = inv[k].args[1].b

\* in single-room mode serialization was disabled, silently, and then
\* enabled, which sent the two notifications
C15_Witness ==
    /\ ~manager
    /\ Len(inv) = 2
    /\ IsDisableSerialization(1)
    /\ inv[1].args = <<Bool(TRUE)>>
    /\ NotificationsBy(1) = <<>>
    /\ IsDisableSerialization(2)
    /\ inv[2].args = <<Bool(FALSE)>>
    /\ Len(NotificationsBy(2)) = 2
    /\ room.disableSerialization = FALSE

(***************************************************************************)
(* Task id and url together (checked under SlideSpec).                     *)
(***************************************************************************)
\* the app addSlideApp asks the window manager for, given the drawn scenes
AppKindFor(ss) == addSlideApp("/deck", "Deck", ss).kind

\* C16: the task id and the url returned by makeSlideParams are both empty
\* or both non-empty; they are non-empty exactly when some scene has a source
\* that starts with "ppt" and has the slide-source form, so addSlideApp asks
\* for the Slide app exactly then and for the document viewer otherwise.
C16_BothOrNeither ==
    result.called =>
        /\ (result.value.taskId = Empty) <=> (result.value.url = Empty)
        /\ (result.value.taskId # Empty) <=> (SlideIdx(scenes) # {})
        /\ AppKindFor(scenes) = IF SlideIdx(scenes) # {} THEN "Slide" ELSE "DocsViewer"

\* the second of three scenes matched: both values are non-empty and the
\* Slide app is chosen
C16_Witness ==
    /\ result.called
    /\ Len(scenes) = 3
    /\ Min(SlideIdx(scenes) \cup {9}) = 2
    /\ result.value.taskId # Empty
    /\ result.value.url # Empty
    /\ AppKindFor(scenes) = "Slide"

====
